---- MODULE Spec2Model ----
(***************************************************************************)
(* Model of the fixed-point template class tFixedPoint<QBits, DataType>    *)
(* of include/FixedPoint.h.                                                *)
(*                                                                         *)
(* The class is a value type with one field, value_.  Every operator of    *)
(* the class is one action: the action draws the operands of one call      *)
(* (built with the public factory create()), evaluates the operator's body *)
(* as C++ evaluates it, and records the call and what it returned.         *)
(*                                                                         *)
(* Storage types keep a width.  The widths are scaled down (IntBits for    *)
(* `int`, LongBits for `long long`) so that every overflow of the real     *)
(* 32/64 bit types has a counterpart the model checker can reach.          *)
(*                                                                         *)
(* Undefined behaviour (signed overflow, a shift by a negative or too      *)
(* large count, division by zero, an out-of-range double to integer        *)
(* conversion) is a nondeterministic choice: an expression is evaluated    *)
(* to the set of its outcomes, the empty set standing for "undefined", and *)
(* the action then picks any value of the storage type.                    *)
(***************************************************************************)
EXTENDS Integers, FiniteSets, Sequences, TLC

VARIABLES
    op,     \* name of the operator / method of the last call
    lhs,    \* *this at the time of the call (left operand)
    rhs,    \* the argument of the call (right operand)
    ret,    \* what the call returned (for compound assignment: *this after it)
    prev,   \* the call whose result this call was applied to (method chaining)
    fault   \* "division by zero" when the call divided an integer by zero

vars == <<op, lhs, rhs, ret, prev, fault>>

----------------------------------------------------------------------------
(* Bounds of the model *)

IntBits == 7                 \* width of `int` in the model
LongBits == 2 * IntBits      \* width of `long long` in the model
MaxQBits == 3                \* largest QBits of an operand type
MaxRaw == 4                  \* operands take every raw value in -MaxRaw..MaxRaw
MaxInt == 3                  \* plain integer arguments range over -MaxInt..MaxInt
DblFracBits == 2             \* binary doubles are multiples of 2^-(MaxQBits+DblFracBits)
MaxFracDigits == 1           \* most digits of the fraction of a decimal constant
MaxDecimals == 1             \* fracPlaces is asked for 0..MaxDecimals decimal places
ExtraQBits == 2              \* fracPlaces is called on types of up to MaxQBits+ExtraQBits bits

----------------------------------------------------------------------------
(* Storage types *)

DataTypes == {"int", "long long"}

Width(T) == IF T = "int" THEN IntBits ELSE LongBits

MinVal(T) == -(2 ^ (Width(T) - 1))
MaxVal(T) == 2 ^ (Width(T) - 1) - 1

Fits(x, T) == x >= MinVal(T) /\ x <= MaxVal(T)

\* usual arithmetic conversions: the operands of a binary operator are
\* brought to the wider of the two types (int is the promotion type)
CommonType(T1, T2) == IF T1 = "long long" \/ T2 = "long long" THEN "long long" ELSE "int"

\* integral conversion to a signed type: the value modulo 2^width
Convert(x, T) == ((x - MinVal(T)) % (2 ^ Width(T))) + MinVal(T)

\* raw values an operand is drawn from: a window around zero, the ends of
\* the storage range and values with one and two bits of headroom
RawValues(T) ==
    (-MaxRaw .. MaxRaw)
      \cup { MinVal(T), MaxVal(T), 2 ^ (Width(T) - 2), -(2 ^ (Width(T) - 2)) - 1,
             2 ^ (Width(T) - 3) - 1 }

\* the outcomes of an evaluation with undefined behaviour: any value of the
\* type (the ends of its range and the values around zero)
AnyValue(T) == { MinVal(T), -1, 0, 1, MaxVal(T) }

\* S is the set of outcomes of an expression, {} when it is undefined
Outcomes(S, T) == IF S = {} THEN AnyValue(T) ELSE S

----------------------------------------------------------------------------
(* C++ integer expressions.  Each returns the set of its outcomes: one      *)
(* value, or {} when the evaluation has undefined behaviour.                *)

Abs(x) == IF x < 0 THEN -x ELSE x

\* x / y of C++: the quotient truncated towards zero
CQuot(x, y) == IF (x >= 0) = (y > 0) THEN Abs(x) \div Abs(y) ELSE -(Abs(x) \div Abs(y))

Add(x, y, T) == IF Fits(x + y, T) THEN {x + y} ELSE {}
Sub(x, y, T) == IF Fits(x - y, T) THEN {x - y} ELSE {}
Mul(x, y, T) == IF Fits(x * y, T) THEN {x * y} ELSE {}
Div(x, y, T) == IF y # 0 /\ Fits(CQuot(x, y), T) THEN {CQuot(x, y)} ELSE {}

\* x << k evaluated in type T.  A negative or too large count and an
\* overflowing result are undefined; a negative x is shifted as x * 2^k,
\* which is what every compiler the library targets produces.
Shl(x, k, T) == IF k >= 0 /\ k < Width(T) /\ Fits(x * (2 ^ k), T) THEN {x * (2 ^ k)} ELSE {}

\* x >> k evaluated in type T: the arithmetic shift (floor of x / 2^k)
Shr(x, k, T) == IF k >= 0 /\ k < Width(T) THEN {x \div (2 ^ k)} ELSE {}

\* x & y of two non-negative integers
RECURSIVE BitAnd(_, _)
BitAnd(x, y) ==
    IF x = 0 \/ y = 0 THEN 0
    ELSE (x % 2) * (y % 2) + 2 * BitAnd(x \div 2, y \div 2)

\* -x evaluated in type T
Neg(x, T) == IF Fits(-x, T) THEN {-x} ELSE {}

----------------------------------------------------------------------------
(* Values *)

\* a double (see DblUnit for the unit of value_)
Dbl(d) == [kind |-> "double", QBits |-> 0, DataType |-> "double", value_ |-> d]

\* a fixed-point object of type tFixedPoint<q, T> whose value_ is v
FP(q, T, v) == [kind |-> "fp", QBits |-> q, DataType |-> T, value_ |-> v]

\* a plain integer of type T (what operator/ of two equal types returns)
Plain(T, v) == [kind |-> "int", QBits |-> 0, DataType |-> T, value_ |-> v]

\* a bool
Bool(b) == [kind |-> "bool", QBits |-> 0, DataType |-> "bool", value_ |-> IF b THEN 1 ELSE 0]

\* the call is ill-formed (it names a function that is declared nowhere, or
\* holds a malformed literal), so that no program containing it can be built
IllFormed == [kind |-> "ill-formed", QBits |-> 0, DataType |-> "none", value_ |-> 0]

\* the call does not return (a loop that never ends)
Diverges == [kind |-> "diverges", QBits |-> 0, DataType |-> "none", value_ |-> 0]

None == [kind |-> "none", QBits |-> 0, DataType |-> "none", value_ |-> 0]

NoCall == [op |-> "none", lhs |-> None, rhs |-> None]

qValue(x) == x.value_

QBitsSet == 0 .. MaxQBits

\* static tFixedPoint create( tValue qValue ): the argument is converted to
\* tValue and shifted by QBits - QBits = 0
create(q, T, v) == FP(q, T, Convert(v, T))

\* the objects of type tFixedPoint<q, T> a call can be given
Objects(q, T) == { create(q, T, v) : v \in RawValues(T) }

Operands == UNION { Objects(q, T) : q \in QBitsSet, T \in DataTypes }

Integers_(T) == { Plain(T, n) : n \in -MaxInt .. MaxInt }

----------------------------------------------------------------------------
(* Support macros *)

\* mutant: the macro with its parameters used as they are named
IMPL_DIVIDE_named(dividend, divisor, T) ==
    UNION { UNION { Div(s, divisor, T) : s \in Add(dividend, h, T) } : h \in Shr(divisor, 1, T) }

\* #define FIXEDPOINT_IMPL_DIVIDE( dividend, divisor )
\*      (((divisor) + ((dividend) >> 1)) / (dividend))
FIXEDPOINT_IMPL_DIVIDE(dividend, divisor, T) ==
    UNION { UNION { Div(s, dividend, T) : s \in Add(divisor, h, T) } : h \in Shr(dividend, 1, T) }

\* the integer division of FIXEDPOINT_IMPL_DIVIDE: its denominator is the
\* macro argument `dividend` (given as the set of outcomes of the argument)
DivideFault(dividend, divisor) ==
    IF 0 \in dividend THEN "division by zero" ELSE "none"

\* mutant: the rounding macro without the half added (a truncation)
IMPL_ROUND_truncating(value, byQBits, T) == Shr(value, byQBits, T)

\* #define FIXEDPOINT_IMPL_ROUND( value, byQBits )
\*      (((value) + (1 << ((byQBits)-1))) >> (byQBits))
\* the literal 1 is an int, so the half is shifted as an int
FIXEDPOINT_IMPL_ROUND(value, byQBits, T) ==
    UNION { UNION { Shr(s, byQBits, T) : s \in Add(value, h, T) }
            : h \in Shl(1, byQBits - 1, "int") }

----------------------------------------------------------------------------
(* double: a value d stands for the double d / DblUnit.  The unit is fine   *)
(* enough for every raw value divided by 2^QBits, for the binary fractions  *)
(* down to 2^-(MaxQBits+DblFracBits) and for the decimal fractions of up to *)
(* MaxFracDigits digits.  A decimal fraction that is one of the rounding    *)
(* ties of a format is a binary fraction, so the nearest double of a        *)
(* decimal rounds as the decimal does.                                      *)

DblUnit == (2 ^ (MaxQBits + DblFracBits)) * (10 ^ MaxFracDigits)

\* conversion of an integer to double (exact)
ToDouble(n) == n * DblUnit

\* conversion of a double to the integer type T: the fraction is discarded
\* (truncation towards zero); undefined when the result is out of range
DoubleToInt(d, T) == IF Fits(CQuot(d, DblUnit), T) THEN {CQuot(d, DblUnit)} ELSE {}

\* static tValue rounded_( double value )
\*     { return tValue( value * (tValue(1) << QBits) + 0.5 ); }
rounded_(q, T, d) ==
    UNION { DoubleToInt(d * one + DblUnit \div 2, T) : one \in Shl(1, q, T) }

\* double toDouble() const { return double( value_ ) / (tValue(1) << QBits); }
toDouble(x) ==
    { Dbl(CQuot(ToDouble(x.value_), one)) : one \in Shl(1, x.QBits, x.DataType) }

\* the doubles a call is given: the multiples of 2^-(MaxQBits+DblFracBits)
\* between -MaxInt and MaxInt
Doubles ==
    { k * (10 ^ MaxFracDigits)
      : k \in -(MaxInt * (2 ^ (MaxQBits + DblFracBits))) .. MaxInt * (2 ^ (MaxQBits + DblFracBits)) }

----------------------------------------------------------------------------
(* Construction and conversions: each operator gives the set of objects    *)
(* the call can return                                                     *)

\* the objects of type tFixedPoint<q, T> made from the outcomes S
Made(q, T, S) == { create(q, T, v) : v \in Outcomes(S, T) }

\* tFixedPoint( tValue value ) : value_( value << QBits )
tFixedPoint_tValue(q, T, n) == Made(q, T, Shl(n, q, T))

\* ---- decimal constants ----

\* the `frac` argument of FIXEDPOINT_CONSTANT as it is written: its digits
FracTokens == UNION { [1 .. n -> 0 .. 9] : n \in 1 .. MaxFracDigits }

\* the digits s read in the given base
RECURSIVE DigitsValue(_, _)
DigitsValue(s, base) ==
    IF s = <<>> THEN 0
    ELSE DigitsValue(SubSeq(s, 1, Len(s) - 1), base) * base + s[Len(s)]

\* an integer literal that starts with 0 is octal
IsOctal(s) == Len(s) > 1 /\ s[1] = 0

\* the value of the integer literal written with the digits s; a literal
\* with a leading 0 and a digit 8 or 9 is ill-formed
LiteralValue(s) ==
    IF IsOctal(s)
    THEN IF \E i \in 1 .. Len(s) : s[i] > 7 THEN {} ELSE {DigitsValue(s, 8)}
    ELSE {DigitsValue(s, 10)}

\* the literal made by pasting the digit `first` before the token (2##frac)
Pasted(first, s) == first * (10 ^ Len(s)) + DigitsValue(s, 10)

\* the double literal dec.frac that FIXEDPOINT_CONSTANT( T, dec,frac ) is
\* written for ("-1.25 can be written as FIXEDPOINT_CONSTANT( tQ4, -1,25 )")
Decimal(dec, frac) ==
    LET f == DigitsValue(frac, 10) * (DblUnit \div (10 ^ Len(frac)))
    IN  IF dec >= 0 THEN ToDouble(dec) + f ELSE ToDouble(dec) - f

\* tFixedPoint( tValue intPart, tValue absFracPart, unsigned qFracBits )
\*     : value_( (intPart >= 0)? ((intPart << QBits)+(absFracPart << (QBits - int(qFracBits))))
\*                             : ((intPart << QBits)-(absFracPart << (QBits - int(qFracBits)))) )
tFixedPoint_parts(q, T, intPart, absFracPart, qFracBits) ==
    Made(q, T,
         UNION { UNION { IF intPart >= 0 THEN Add(a, b, T) ELSE Sub(a, b, T)
                         : b \in Shl(absFracPart, q - qFracBits, T) }
                 : a \in Shl(intPart, q, T) })

\* #define FIXEDPOINT_CONSTANT( FPType, dec,frac )
\*     FPType( dec, (((1 << FPType::cQBits)*frac + (2##frac-1##frac)/2)/(2##frac-1##frac)),
\*             FPType::cQBits )
\* the second argument is an int expression
FIXEDPOINT_CONSTANT(q, T, dec, frac) ==
    LET scale == Pasted(2, frac) - Pasted(1, frac)
        arg == UNION { UNION { UNION { UNION { Div(sum, scale, "int")
                                               : sum \in Add(prod, CQuot(scale, 2), "int") }
                                       : prod \in Mul(one, f, "int") }
                               : f \in LiteralValue(frac) }
                       : one \in Shl(1, q, "int") }
    IN  IF LiteralValue(frac) = {} THEN { IllFormed }
        ELSE UNION { tFixedPoint_parts(q, T, dec, Convert(a, T), q) : a \in Outcomes(arg, "int") }

\* template< int QBits2, typename DataType2 >
\* tFixedPoint( const tFixedPoint<QBits2,DataType2>& value )
\*     : value_( value.qValue() << (QBits - QBits2) )
\* the shift is evaluated in the type of the source
tFixedPoint_convert(q, T, value) ==
    Made(q, T, Shl(qValue(value), q - value.QBits, value.DataType))

\* mutant: a truncation that keeps one bit too many
truncatedTo_short(x, QBits2) ==
    Made(QBits2, x.DataType, Shr(x.value_, x.QBits - QBits2 - 1, x.DataType))

\* template< int QBits2 > tFixedPoint<QBits2,DataType> truncatedTo() const
truncatedTo(x, QBits2) ==
    Made(QBits2, x.DataType, Shr(x.value_, x.QBits - QBits2, x.DataType))

\* template< int QBits2 > tFixedPoint<QBits2,DataType> roundedTo() const
roundedTo(x, QBits2) ==
    Made(QBits2, x.DataType, FIXEDPOINT_IMPL_ROUND(x.value_, x.QBits - QBits2, x.DataType))

\* mutant: a widening that sets the lowest bit
increasedTo_biased(x, QBits2) ==
    Made(QBits2, x.DataType,
         UNION { Add(sh, 1, x.DataType) : sh \in Shl(x.value_, QBits2 - x.QBits, x.DataType) })

\* template< int QBits2 > tFixedPoint<QBits2,DataType> increasedTo() const
increasedTo(x, QBits2) ==
    Made(QBits2, x.DataType, Shl(x.value_, QBits2 - x.QBits, x.DataType))

\* template< int QBits2, typename DataType2 >
\* tFixedPoint<QBits2,DataType2> increasedTo() const
\*     { return ...::create( DataType2(value_) << (QBits2 - QBits) ); }
increasedTo2(x, QBits2, DataType2) ==
    Made(QBits2, DataType2, Shl(Convert(x.value_, DataType2), QBits2 - x.QBits, DataType2))

\* template< int QBits2, typename DataType2 >
\* tFixedPoint& operator=( const tFixedPoint<QBits2,DataType2>& value )
\*     { return *this = value.increasedTo<QBits,DataType>(); }
assign_cross(this, value) == increasedTo2(value, this.QBits, this.DataType)

----------------------------------------------------------------------------
(* Arithmetic between fixed-point values.  `this` is the left operand,      *)
(* `value` the argument.                                                    *)

\* the type the operands of a binary operator are brought to
CT(this, value) == CommonType(this.DataType, value.DataType)

\* roundedBy_ is used by operator*=( const tFixedPoint& ) and is declared
\* neither in the class nor at namespace scope
roundedBy_(value, byQBits, T) == { IllFormed }

\* tFixedPoint operator+( const tFixedPoint& value ) const
\*     { return create( value_ + value.value_ ); }
add_same(this, value) ==
    Made(this.QBits, this.DataType, Add(this.value_, value.value_, this.DataType))

\* tValue absolute() const { return (value_ >= 0)? value_ : -value_; }
absolute(x) ==
    IF x.value_ >= 0 THEN {x.value_} ELSE Neg(x.value_, x.DataType)

\* tValue intPart() const { return value_ >> QBits; }
intPart(x) ==
    { Plain(x.DataType, v) : v \in Outcomes(Shr(x.value_, x.QBits, x.DataType), x.DataType) }

\* ((1 << QBits) - 1): the literal 1 is an int
FracMask(q) == UNION { Sub(one, 1, "int") : one \in Shl(1, q, "int") }

\* tValue fracPart() const
\*     { return (value_ >= 0)? (value_ & ((1 << QBits) - 1))
\*                           : -((-value_) & ((1 << QBits) - 1)); }
fracPart(x) ==
    { Plain(x.DataType, v)
      : v \in Outcomes(UNION { IF x.value_ >= 0
                                THEN {BitAnd(x.value_, mask)}
                                ELSE {-BitAnd(n, mask) : n \in Neg(x.value_, x.DataType)}
                              : mask \in FracMask(x.QBits) },
                       x.DataType) }

\* the value of absFracPart(), {} when its evaluation is undefined
absFracPart_(x) ==
    UNION { {BitAnd(a, mask) : a \in absolute(x)} : mask \in FracMask(x.QBits) }

\* tValue absFracPart() const
\*     { return ((value_ >= 0)? value_ : -value_) & ((1 << QBits) - 1); }
absFracPart(x) ==
    { Plain(x.DataType, v) : v \in Outcomes(absFracPart_(x), x.DataType) }

\* const unsigned cXBits = 4: the guard bits of fracPlaces
cXBits == 4

\* a value of the type `unsigned` (as wide as int): arithmetic wraps
Unsigned(x) == x % (2 ^ IntBits)

\* result += dec_qx with tValue result and unsigned dec_qx.  For int the
\* sum is computed as unsigned and converted back; long long holds every
\* unsigned, and the halvings of dec_qx add up to less than 2^(IntBits+1).
AddUnsigned(result, dec_qx, T) ==
    IF T = "int" THEN Convert(Unsigned(result + dec_qx), T) ELSE result + dec_qx

\* while (frac != 0) {
\*     if (frac & mask) { frac -= mask; result += dec_qx; }
\*     dec_qx >>= 1; mask >>= 1;
\* }
\* n counts the iterations.  Once mask is 0 frac changes no more, and the
\* loop never ends if frac is not 0 then.
RECURSIVE fracPlaces_loop(_, _, _, _, _, _)
fracPlaces_loop(frac, mask, dec_qx, result, n, T) ==
    IF frac = 0 THEN [done |-> TRUE, result |-> result, iterations |-> n]
    ELSE IF mask <= 0 THEN [done |-> FALSE, result |-> result, iterations |-> n]
    ELSE IF BitAnd(frac, mask) # 0
         THEN fracPlaces_loop(frac - mask, mask \div 2, dec_qx \div 2,
                              AddUnsigned(result, dec_qx, T), n + 1, T)
         ELSE fracPlaces_loop(frac, mask \div 2, dec_qx \div 2, result, n + 1, T)

\* the loop of fracPlaces( decimals ) on x, for each outcome of the
\* initialisations
\*     tValue frac = absFracPart();
\*     unsigned dec_qx = (1 << (cXBits-1));  while (decimals-- > 0) dec_qx *= 10;
\*     tValue mask = 1 << (QBits - 1);
fracPlaces_run(x, decimals) ==
    { fracPlaces_loop(frac, mask, Unsigned((2 ^ (cXBits - 1)) * (10 ^ decimals)), 0, 0, x.DataType)
      : frac \in Outcomes(absFracPart_(x), x.DataType),
        mask \in Outcomes(Shl(1, x.QBits - 1, "int"), "int") }

\* tValue fracPlaces( unsigned decimals )
\*     ... return ((result + (1 << (cXBits-1))) >> cXBits);
fracPlaces(x, decimals) ==
    UNION { IF run.done
            THEN { Plain(x.DataType, v)
                   : v \in Outcomes(UNION { Shr(sum, cXBits, x.DataType)
                                            : sum \in Add(run.result, 2 ^ (cXBits - 1), x.DataType) },
                                    x.DataType) }
            ELSE { Diverges }
            : run \in fracPlaces_run(x, decimals) }

\* tFixedPoint& operator*=( const tFixedPoint& value )
\*     { value_ = roundedBy_( value_ * value.value_, QBits ); return *this; }
mul_assign(this, value) == roundedBy_(this.value_ * value.value_, this.QBits, this.DataType)

\* tFixedPoint& operator/=( const tFixedPoint& value )
\*     { value_ = FIXEDPOINT_IMPL_DIVIDE( value_, value.value_ ); return *this; }
div_assign_same(this, value) ==
    Made(this.QBits, this.DataType,
         FIXEDPOINT_IMPL_DIVIDE(this.value_, value.value_, this.DataType))

\* tValue operator/( const tFixedPoint& value ) const
\*     { return FIXEDPOINT_IMPL_DIVIDE( value_, value.value_ ); }
div_same(this, value) ==
    { Plain(this.DataType, v)
      : v \in Outcomes(FIXEDPOINT_IMPL_DIVIDE(this.value_, value.value_, this.DataType),
                       this.DataType) }

\* template<...> tFixedPoint& operator+=( const tFixedPoint<QBits2,DataType2>& value )
\*     { value_ += value.qValue() << (QBits-QBits2); return *this; }
add_assign_cross(this, value) ==
    Made(this.QBits, this.DataType,
         UNION { Add(this.value_, sh, CT(this, value))
                 : sh \in Shl(qValue(value), this.QBits - value.QBits, value.DataType) })

\* template<...> tFixedPoint& operator-=( const tFixedPoint<QBits2,DataType2>& value )
\*     { value_ -= value.qValue() << (QBits-QBits2); return *this; }
sub_assign_cross(this, value) ==
    Made(this.QBits, this.DataType,
         UNION { Sub(this.value_, sh, CT(this, value))
                 : sh \in Shl(qValue(value), this.QBits - value.QBits, value.DataType) })

\* template<...> tFixedPoint& operator/=( const tFixedPoint<QBits2,DataType2>& value )
\*     { value_ = FIXEDPOINT_IMPL_DIVIDE( (value_ << (QBits-QBits2)), value.qValue() ); ... }
div_assign_cross(this, value) ==
    Made(this.QBits, this.DataType,
         UNION { FIXEDPOINT_IMPL_DIVIDE(sh, qValue(value), CT(this, value))
                 : sh \in Shl(this.value_, this.QBits - value.QBits, this.DataType) })

\* template<...> tFixedPoint operator+( const tFixedPoint<QBits2,DataType2>& value ) const
\*     { return create( value_ + (value.qValue() << (QBits-QBits2)) ); }
add_cross(this, value) ==
    Made(this.QBits, this.DataType,
         UNION { Add(this.value_, sh, CT(this, value))
                 : sh \in Shl(qValue(value), this.QBits - value.QBits, value.DataType) })

\* template<...> tFixedPoint operator-( const tFixedPoint<QBits2,DataType2>& value ) const
\*     { return create( value_ - (value.qValue() << (QBits-QBits2)) ); }
sub_cross(this, value) ==
    Made(this.QBits, this.DataType,
         UNION { Sub(this.value_, sh, CT(this, value))
                 : sh \in Shl(qValue(value), this.QBits - value.QBits, value.DataType) })

\* mutant: the cross-type product rounded back by the bits of the argument,
\* as the cross-type operator*= does
mul_cross_rounded(this, value) ==
    Made(this.QBits + value.QBits, this.DataType,
         UNION { FIXEDPOINT_IMPL_ROUND(m, value.QBits, CT(this, value))
                 : m \in Mul(this.value_, qValue(value), CT(this, value)) })

\* template<...> tFixedPoint<QBits+QBits2,DataType>
\* operator*( const tFixedPoint<QBits2,DataType2>& value ) const
\*     { return tFixedPoint<QBits+QBits2,DataType>::create( value_ * value.qValue() ); }
mul_cross(this, value) ==
    Made(this.QBits + value.QBits, this.DataType,
         Mul(this.value_, qValue(value), CT(this, value)))

\* mutant: the binary division with the pre-shift of the compound one
div_cross_preshifted(this, value) ==
    Made(this.QBits - value.QBits, this.DataType,
         UNION { FIXEDPOINT_IMPL_DIVIDE(sh, qValue(value), CT(this, value))
                 : sh \in Shl(this.value_, this.QBits - value.QBits, this.DataType) })

\* template<...> tFixedPoint<QBits-QBits2,DataType>
\* operator/( const tFixedPoint<QBits2,DataType2>& value ) const
\*     { return ...::create( FIXEDPOINT_IMPL_DIVIDE( value_, value.qValue() ) ); }
div_cross(this, value) ==
    Made(this.QBits - value.QBits, this.DataType,
         FIXEDPOINT_IMPL_DIVIDE(this.value_, qValue(value), CT(this, value)))

----------------------------------------------------------------------------
(* Multiplication and division by a plain integer `value` of type DataType2 *)

\* template< typename DataType2 > tFixedPoint operator*( const DataType2& value ) const
\*     { return create( value_ * value ); }
mul_int(this, value) ==
    Made(this.QBits, this.DataType, Mul(this.value_, value.value_, CT(this, value)))

\* template< typename DataType2 > tFixedPoint operator/( const DataType2& value ) const
\*     { return create( FIXEDPOINT_IMPL_DIVIDE( value_, value ) ); }
div_int(this, value) ==
    Made(this.QBits, this.DataType,
         FIXEDPOINT_IMPL_DIVIDE(this.value_, value.value_, CT(this, value)))

\* template< typename DataType2 > tFixedPoint& operator*=( const DataType2& value )
\*     { value_ *= value; return *this; }
mul_assign_int(this, value) ==
    Made(this.QBits, this.DataType, Mul(this.value_, value.value_, CT(this, value)))

\* template< typename DataType2 > tFixedPoint& operator/=( const DataType2& value )
\*     { value_ = FIXEDPOINT_IMPL_DIVIDE( value_, value ); return *this; }
div_assign_int(this, value) ==
    Made(this.QBits, this.DataType,
         FIXEDPOINT_IMPL_DIVIDE(this.value_, value.value_, CT(this, value)))

----------------------------------------------------------------------------
(* Operators that take a double.  A plain integer argument of =, +=, -=,   *)
(* +, - and of the comparisons selects these overloads: the conversion of  *)
(* an integer to double is a standard conversion and is preferred to the   *)
(* user-defined conversion through tFixedPoint( tValue ).                  *)

\* tFixedPoint& operator=( double value ) { value_ = rounded_( value ); return *this; }
assign_double(this, d) ==
    Made(this.QBits, this.DataType, rounded_(this.QBits, this.DataType, d))

\* tFixedPoint& operator+=( double value ) { value_ += rounded_( value ); return *this; }
add_assign_double(this, d) ==
    Made(this.QBits, this.DataType,
         UNION { Add(this.value_, r, this.DataType)
                 : r \in rounded_(this.QBits, this.DataType, d) })

\* tFixedPoint& operator-=( double value ) { value_ -= rounded_( value ); return *this; }
sub_assign_double(this, d) ==
    Made(this.QBits, this.DataType,
         UNION { Sub(this.value_, r, this.DataType)
                 : r \in rounded_(this.QBits, this.DataType, d) })

\* tFixedPoint operator+( double value ) const { return create( value_ + rounded_( value ) ); }
add_double(this, d) ==
    Made(this.QBits, this.DataType,
         UNION { Add(this.value_, r, this.DataType)
                 : r \in rounded_(this.QBits, this.DataType, d) })

----------------------------------------------------------------------------
(* Comparisons *)

Relations == { "==", "!=", "<", "<=", ">=", ">" }

\* the built-in comparison x rel y of two integers
Compare(rel, x, y) ==
    CASE rel = "==" -> x = y
      [] rel = "!=" -> x # y
      [] rel = "<"  -> x < y
      [] rel = "<=" -> x <= y
      [] rel = ">=" -> x >= y
      [] rel = ">"  -> x > y

\* bool operator==( double value ) const { return (value_ == rounded_( value )); }
\* and operator!=, <, <=, >=, > likewise
cmp_double(rel, this, d) ==
    IF rounded_(this.QBits, this.DataType, d) = {}
        THEN { Bool(TRUE), Bool(FALSE) }
        ELSE { Bool(Compare(rel, this.value_, r))
               : r \in rounded_(this.QBits, this.DataType, d) }

\* the member comparison each free operator forwards to:
\*   operator==( lhs, rhs ) { return (rhs == lhs); }
\*   operator!=( lhs, rhs ) { return (rhs != lhs); }
\*   operator< ( lhs, rhs ) { return (rhs >= lhs); }
\*   operator<=( lhs, rhs ) { return (rhs >  lhs); }
\*   operator>=( lhs, rhs ) { return (rhs <  lhs); }
\*   operator> ( lhs, rhs ) { return (rhs <= lhs); }
Forwarded(rel) ==
    CASE rel = "==" -> "=="
      [] rel = "!=" -> "!="
      [] rel = "<"  -> ">="
      [] rel = "<=" -> ">"
      [] rel = ">=" -> "<"
      [] rel = ">"  -> "<="

\* template< int QBits, typename DataType >
\* bool operator rel( DataType lhs, const tFixedPoint<QBits,DataType>& rhs )
\* rhs is compared with the plain integer lhs, which selects the double overload
free_cmp(rel, n, x) == cmp_double(Forwarded(rel), x, ToDouble(n))

\* template< int QBits2, typename DataType2 >
\* bool operator rel( const tFixedPoint<QBits2,DataType2>& value ) const
\*     { return (value_ rel value.increasedTo<QBits,DataType>()); }
\* the left operand is the tValue value_, the right one a tFixedPoint: the
\* free operator template above is the one that is called
cmp_cross(rel, this, value) ==
    UNION { free_cmp(rel, this.value_, w)
            : w \in increasedTo2(value, this.QBits, this.DataType) }

----------------------------------------------------------------------------
(* The state machine.  A call on fresh operands starts a new expression    *)
(* (op = "none"): it draws its operands, evaluates the operator and        *)
(* records what it returned.                                               *)

\* a type tFixedPoint<q, T>, as the target of a construction or conversion
TypeTag(q, T) == [kind |-> "type", QBits |-> q, DataType |-> T, value_ |-> 0]

\* the operands of another fixed-point type than a
Others(a) == { b \in Operands : b.QBits # a.QBits \/ b.DataType # a.DataType }

Init ==
    /\ op = "none"
    /\ lhs = None
    /\ rhs = None
    /\ ret = None
    /\ prev = NoCall
    /\ fault = "none"

\* the record of one call
Call(name, a, b, r) ==
    /\ op' = name
    /\ lhs' = a
    /\ rhs' = b
    /\ ret' = r
    /\ prev' = NoCall
    /\ fault' = "none"

\* the record of a call that evaluates FIXEDPOINT_IMPL_DIVIDE( dividend, divisor )
CallDivide(name, a, b, r, dividend, divisor) ==
    /\ op' = name
    /\ lhs' = a
    /\ rhs' = b
    /\ ret' = r
    /\ prev' = NoCall
    /\ fault' = DivideFault(dividend, divisor)

\* tFixedPoint( tValue value )
Call_ctor_tValue ==
    /\ op = "none"
    /\ \E q \in QBitsSet, T \in DataTypes : \E n \in Integers_(T) :
        \E r \in tFixedPoint_tValue(q, T, n.value_) :
            Call("tFixedPoint(tValue)", TypeTag(q, T), n, r)

\* tFixedPoint( const tFixedPoint<QBits2,DataType2>& value )
Call_ctor_convert ==
    /\ op = "none"
    /\ \E q \in QBitsSet, T \in DataTypes : \E b \in Others(TypeTag(q, T)) :
        \E r \in tFixedPoint_convert(q, T, b) :
            Call("tFixedPoint(fp2)", TypeTag(q, T), b, r)

\* template< int QBits2 > truncatedTo() const
Call_truncatedTo ==
    /\ op = "none"
    /\ \E a \in Operands : \E q2 \in QBitsSet :
        \E r \in truncatedTo(a, q2) :
            Call("truncatedTo", a, TypeTag(q2, a.DataType), r)

\* template< int QBits2 > roundedTo() const
Call_roundedTo ==
    /\ op = "none"
    /\ \E a \in Operands : \E q2 \in QBitsSet :
        \E r \in roundedTo(a, q2) :
            Call("roundedTo", a, TypeTag(q2, a.DataType), r)

\* template< int QBits2 > increasedTo() const
Call_increasedTo ==
    /\ op = "none"
    /\ \E a \in Operands : \E q2 \in QBitsSet :
        \E r \in increasedTo(a, q2) :
            Call("increasedTo", a, TypeTag(q2, a.DataType), r)

\* operator=( const tFixedPoint<QBits2,DataType2>& )
Call_assign_cross ==
    /\ op = "none"
    /\ \E a \in Operands : \E b \in Others(a) :
        \E r \in assign_cross(a, b) :
            Call("operator=(fp2)", a, b, r)

\* operator+=( const tFixedPoint<QBits2,DataType2>& )
Call_add_assign_cross ==
    /\ op = "none"
    /\ \E a \in Operands : \E b \in Others(a) :
        \E r \in add_assign_cross(a, b) :
            Call("operator+=(fp2)", a, b, r)

\* operator-=( const tFixedPoint<QBits2,DataType2>& )
Call_sub_assign_cross ==
    /\ op = "none"
    /\ \E a \in Operands : \E b \in Others(a) :
        \E r \in sub_assign_cross(a, b) :
            Call("operator-=(fp2)", a, b, r)

\* operator/=( const tFixedPoint<QBits2,DataType2>& )
Call_div_assign_cross ==
    /\ op = "none"
    /\ \E a \in Operands : \E b \in Others(a) :
        \E r \in div_assign_cross(a, b) :
            CallDivide("operator/=(fp2)", a, b, r,
                       Shl(a.value_, a.QBits - b.QBits, a.DataType), b.value_)

\* operator+( const tFixedPoint<QBits2,DataType2>& ) const
Call_add_cross ==
    /\ op = "none"
    /\ \E a \in Operands : \E b \in Others(a) :
        \E r \in add_cross(a, b) :
            Call("operator+(fp2)", a, b, r)

\* operator-( const tFixedPoint<QBits2,DataType2>& ) const
Call_sub_cross ==
    /\ op = "none"
    /\ \E a \in Operands : \E b \in Others(a) :
        \E r \in sub_cross(a, b) :
            Call("operator-(fp2)", a, b, r)

\* operator*( const tFixedPoint<QBits2,DataType2>& ) const
Call_mul_cross ==
    /\ op = "none"
    /\ \E a \in Operands : \E b \in Others(a) :
        \E r \in mul_cross(a, b) :
            Call("operator*(fp2)", a, b, r)

\* operator/( const tFixedPoint<QBits2,DataType2>& ) const
Call_div_cross ==
    /\ op = "none"
    /\ \E a \in Operands : \E b \in Others(a) :
        \E r \in div_cross(a, b) :
            CallDivide("operator/(fp2)", a, b, r, {a.value_}, b.value_)

\* operator*=( const tFixedPoint& )
Call_mul_assign ==
    /\ op = "none"
    /\ \E a \in Operands : \E b \in Objects(a.QBits, a.DataType) :
        \E r \in mul_assign(a, b) :
            Call("operator*=(fp)", a, b, r)

\* tValue operator/( const tFixedPoint& ) const
Call_div_same ==
    /\ op = "none"
    /\ \E a \in Operands : \E b \in Objects(a.QBits, a.DataType) :
        \E r \in div_same(a, b) :
            CallDivide("operator/(fp)", a, b, r, {a.value_}, b.value_)

\* operator*( const DataType2& ) const
Call_mul_int ==
    /\ op = "none"
    /\ \E a \in Operands : \E b \in Integers_("int") :
        \E r \in mul_int(a, b) :
            Call("operator*(int)", a, b, r)

\* operator/( const DataType2& ) const
Call_div_int ==
    /\ op = "none"
    /\ \E a \in Operands : \E b \in Integers_("int") :
        \E r \in div_int(a, b) :
            CallDivide("operator/(int)", a, b, r, {a.value_}, b.value_)

\* operator*=( const DataType2& )
Call_mul_assign_int ==
    /\ op = "none"
    /\ \E a \in Operands : \E b \in Integers_("int") :
        \E r \in mul_assign_int(a, b) :
            Call("operator*=(int)", a, b, r)

\* operator/=( const DataType2& )
Call_div_assign_int ==
    /\ op = "none"
    /\ \E a \in Operands : \E b \in Integers_("int") :
        \E r \in div_assign_int(a, b) :
            CallDivide("operator/=(int)", a, b, r, {a.value_}, b.value_)

\* operator=( double ), called as v = n
Call_assign_double ==
    /\ op = "none"
    /\ \E a \in Operands : \E b \in Integers_("int") :
        \E r \in assign_double(a, ToDouble(b.value_)) :
            Call("operator=(double)", a, b, r)

\* operator+=( double ), called as v += n
Call_add_assign_double ==
    /\ op = "none"
    /\ \E a \in Operands : \E b \in Integers_("int") :
        \E r \in add_assign_double(a, ToDouble(b.value_)) :
            Call("operator+=(double)", a, b, r)

\* operator-=( double ), called as v -= n
Call_sub_assign_double ==
    /\ op = "none"
    /\ \E a \in Operands : \E b \in Integers_("int") :
        \E r \in sub_assign_double(a, ToDouble(b.value_)) :
            Call("operator-=(double)", a, b, r)

\* operator+( double ) const, called as v + n
Call_add_double ==
    /\ op = "none"
    /\ \E a \in Operands : \E b \in Integers_("int") :
        \E r \in add_double(a, ToDouble(b.value_)) :
            Call("operator+(double)", a, b, r)

\* operator==, !=, <, <=, >=, >( const tFixedPoint<QBits2,DataType2>& ) const
Call_cmp_cross ==
    /\ op = "none"
    /\ \E rel \in Relations : \E a \in Operands : \E b \in Others(a) :
        \E r \in cmp_cross(rel, a, b) :
            Call(rel \o "(fp2)", a, b, r)

\* operator==, !=, <, <=, >=, >( double ) const, called as v rel n
Call_cmp_double ==
    /\ op = "none"
    /\ \E rel \in Relations : \E a \in Operands : \E b \in Integers_("int") :
        \E r \in cmp_double(rel, a, ToDouble(b.value_)) :
            Call(rel \o "(double)", a, b, r)

\* v.increasedTo<q>().truncatedTo<p>(): truncatedTo applied to the object
\* the last call of increasedTo returned
Chain_truncatedTo ==
    /\ op = "increasedTo"
    /\ prev = NoCall
    /\ ret.kind = "fp"
    /\ \E q2 \in QBitsSet : \E r \in truncatedTo(ret, q2) :
        /\ op' = "truncatedTo"
        /\ lhs' = ret
        /\ rhs' = TypeTag(q2, ret.DataType)
        /\ ret' = r
        /\ prev' = [op |-> op, lhs |-> lhs, rhs |-> rhs]
        /\ fault' = "none"

\* operator+( const tFixedPoint& )
Call_add_same ==
    /\ op = "none"
    /\ \E a \in Operands : \E b \in Objects(a.QBits, a.DataType) :
        \E r \in add_same(a, b) :
            Call("operator+(fp)", a, b, r)

\* (a + b).increasedTo<QBits2>()
Chain_increasedTo ==
    /\ op = "operator+(fp)"
    /\ prev = NoCall
    /\ ret.kind = "fp"
    /\ \E q2 \in QBitsSet : \E r \in increasedTo(ret, q2) :
        /\ op' = "increasedTo"
        /\ lhs' = ret
        /\ rhs' = TypeTag(q2, ret.DataType)
        /\ ret' = r
        /\ prev' = [op |-> op, lhs |-> lhs, rhs |-> rhs]
        /\ fault' = "none"

\* bool operator rel( DataType lhs, const tFixedPoint<QBits,DataType>& rhs ):
\* a plain integer of the storage type on the left of a comparison
Call_free_cmp ==
    /\ op = "none"
    /\ \E rel \in Relations : \E v \in Operands : \E n \in Integers_(v.DataType) :
        \E r \in free_cmp(rel, n.value_, v) :
            Call(rel \o "(int,fp)", n, v, r)

\* operator/=( const tFixedPoint& )
Call_div_assign_same ==
    /\ op = "none"
    /\ \E a \in Operands : \E b \in Objects(a.QBits, a.DataType) :
        \E r \in div_assign_same(a, b) :
            CallDivide("operator/=(fp)", a, b, r, {a.value_}, b.value_)

\* intPart()
Call_intPart ==
    /\ op = "none"
    /\ \E v \in Operands : \E r \in intPart(v) :
        Call("intPart", v, None, r)

\* fracPart()
Call_fracPart ==
    /\ op = "none"
    /\ \E v \in Operands : \E r \in fracPart(v) :
        Call("fracPart", v, None, r)

\* absFracPart()
Call_absFracPart ==
    /\ op = "none"
    /\ \E v \in Operands : \E r \in absFracPart(v) :
        Call("absFracPart", v, None, r)

\* fracPlaces( decimals )
Call_fracPlaces ==
    /\ op = "none"
    /\ \E q \in 0 .. MaxQBits + ExtraQBits, T \in DataTypes :
        \E v \in Objects(q, T), decimals \in 0 .. MaxDecimals :
            \E r \in fracPlaces(v, decimals) :
                Call("fracPlaces", v, Plain("unsigned", decimals), r)

\* FIXEDPOINT_CONSTANT( tFixedPoint<q,T>, dec,frac )
Call_constant ==
    /\ op = "none"
    /\ \E q \in QBitsSet, T \in DataTypes : \E dec \in -MaxInt .. MaxInt, frac \in FracTokens :
        \E r \in FIXEDPOINT_CONSTANT(q, T, dec, frac) :
            Call("FIXEDPOINT_CONSTANT", TypeTag(q, T), Dbl(Decimal(dec, frac)), r)

\* explicit tFixedPoint( double value ) : value_( rounded_( value ) ) {}
Call_ctor_double ==
    /\ op = "none"
    /\ \E q \in QBitsSet, T \in DataTypes :
        \E d \in Doubles \cup { Decimal(dec, frac) : dec \in -MaxInt .. MaxInt, frac \in FracTokens } :
            \E r \in Made(q, T, rounded_(q, T, d)) :
                Call("tFixedPoint(double)", TypeTag(q, T), Dbl(d), r)

\* static tFixedPoint rounded( double value ) { return create( rounded_( value ) ); }
Call_rounded ==
    /\ op = "none"
    /\ \E q \in QBitsSet, T \in DataTypes :
        \E d \in Doubles \cup { Decimal(dec, frac) : dec \in -MaxInt .. MaxInt, frac \in FracTokens } :
            \E r \in Made(q, T, rounded_(q, T, d)) :
                Call("rounded", TypeTag(q, T), Dbl(d), r)

\* T::rounded( d ).toDouble()
Chain_toDouble ==
    /\ op = "rounded"
    /\ prev = NoCall
    /\ ret.kind = "fp"
    /\ \E r \in toDouble(ret) :
        /\ op' = "toDouble"
        /\ lhs' = ret
        /\ rhs' = None
        /\ ret' = r
        /\ prev' = [op |-> op, lhs |-> lhs, rhs |-> rhs]
        /\ fault' = "none"

Next ==
    \/ Call_ctor_tValue
    \/ Call_ctor_convert
    \/ Call_truncatedTo
    \/ Call_roundedTo
    \/ Call_increasedTo
    \/ Call_assign_cross
    \/ Call_add_assign_cross
    \/ Call_sub_assign_cross
    \/ Call_div_assign_cross
    \/ Call_add_cross
    \/ Call_sub_cross
    \/ Call_mul_cross
    \/ Call_div_cross
    \/ Call_mul_assign
    \/ Call_div_same
    \/ Call_mul_int
    \/ Call_div_int
    \/ Call_mul_assign_int
    \/ Call_div_assign_int
    \/ Call_assign_double
    \/ Call_add_assign_double
    \/ Call_sub_assign_double
    \/ Call_add_double
    \/ Call_cmp_cross
    \/ Call_cmp_double
    \/ Chain_truncatedTo
    \/ Call_constant
    \/ Call_ctor_double
    \/ Call_rounded
    \/ Chain_toDouble
    \/ Call_add_same
    \/ Chain_increasedTo
    \/ Call_free_cmp
    \/ Call_div_assign_same
    \/ Call_intPart
    \/ Call_fracPart
    \/ Call_absFracPart
    \/ Call_fracPlaces

Spec == Init /\ [][Next]_vars

----------------------------------------------------------------------------
(* Properties *)

Pow2(k) == 2 ^ k

C2_Rule(x, y) == CQuot(y + (x \div 2), x)

\* the rule is defined on x and y in type T and its result fits type R
C2_RuleDefined(x, y, T, R) ==
    /\ x # 0
    /\ Fits(x, T)
    /\ Fits(y + (x \div 2), T)
    /\ Fits(C2_Rule(x, y), T)
    /\ Fits(C2_Rule(x, y), R)

\* C2 as claimed: the binary cross-type a / b has p-q fractional bits and the
\* raw value divide(raw(a) << (p-q), raw(b)), the pre-shift of a /= b.
C2_BinaryPreShifted ==
    ( /\ op = "operator/(fp2)"
      /\ lhs.QBits >= rhs.QBits
      /\ Fits(lhs.value_ * Pow2(lhs.QBits - rhs.QBits), lhs.DataType)
      /\ C2_RuleDefined(lhs.value_, rhs.value_, CT(lhs, rhs), lhs.DataType)
      /\ C2_RuleDefined(lhs.value_ * Pow2(lhs.QBits - rhs.QBits), rhs.value_,
                        CT(lhs, rhs), lhs.DataType) )
    => ret = FP(lhs.QBits - rhs.QBits, lhs.DataType,
                C2_Rule(lhs.value_ * Pow2(lhs.QBits - rhs.QBits), rhs.value_))

\* C2 amended: the binary cross-type a / b has p-q fractional bits and the
\* raw value divide(raw(a), raw(b)), without a pre-shift; only the compound
\* a /= b shifts raw(a) left by p-q first, and it keeps p fractional bits.
C2_CrossDivide ==
    /\ ( /\ op = "operator/(fp2)"
         /\ C2_RuleDefined(lhs.value_, rhs.value_, CT(lhs, rhs), lhs.DataType) )
       => ret = FP(lhs.QBits - rhs.QBits, lhs.DataType, C2_Rule(lhs.value_, rhs.value_))
    /\ ( /\ op = "operator/=(fp2)"
         /\ lhs.QBits >= rhs.QBits
         /\ Fits(lhs.value_ * Pow2(lhs.QBits - rhs.QBits), lhs.DataType)
         /\ C2_RuleDefined(lhs.value_ * Pow2(lhs.QBits - rhs.QBits), rhs.value_,
                           CT(lhs, rhs), lhs.DataType) )
       => ret = FP(lhs.QBits, lhs.DataType,
                   C2_Rule(lhs.value_ * Pow2(lhs.QBits - rhs.QBits), rhs.value_))

\* a binary cross-type division, p > q, whose result differs from the
\* pre-shifted one
C2_Witness ==
    /\ op = "operator/(fp2)"
    /\ lhs.QBits > rhs.QBits
    /\ C2_RuleDefined(lhs.value_, rhs.value_, CT(lhs, rhs), lhs.DataType)
    /\ C2_RuleDefined(lhs.value_ * Pow2(lhs.QBits - rhs.QBits), rhs.value_,
                      CT(lhs, rhs), lhs.DataType)
    /\ ret.value_ = C2_Rule(lhs.value_, rhs.value_)
    /\ ret.value_ # C2_Rule(lhs.value_ * Pow2(lhs.QBits - rhs.QBits), rhs.value_)

\* C3: the cross-type a * b has p+q fractional bits, the storage type of a
\* and the exact product raw(a) * raw(b) as raw value, whenever the product
\* fits the storage type of a.
C3_CrossMultiply ==
    ( /\ op = "operator*(fp2)"
      /\ Fits(lhs.value_ * rhs.value_, lhs.DataType) )
    => ret = FP(lhs.QBits + rhs.QBits, lhs.DataType, lhs.value_ * rhs.value_)

\* a cross-type product of two fractions with an odd raw product, which a
\* rounding by the bits of either operand would change
C3_Witness ==
    /\ op = "operator*(fp2)"
    /\ lhs.QBits > 0 /\ rhs.QBits > 0 /\ lhs.QBits # rhs.QBits
    /\ lhs.value_ = -3 /\ rhs.value_ = 3
    /\ ret.QBits = lhs.QBits + rhs.QBits
    /\ ret.value_ = -9

\* C4: the same-type a *= b keeps p fractional bits and sets raw(a) to
\* (raw(a) * raw(b) + 2^(p-1)) >> p.
C4_SameTypeMulAssign ==
    ( /\ op = "operator*=(fp)"
      /\ lhs.QBits >= 1
      /\ Fits(lhs.value_ * rhs.value_ + Pow2(lhs.QBits - 1), lhs.DataType)
      /\ Fits(lhs.value_ * rhs.value_, lhs.DataType) )
    => ret = FP(lhs.QBits, lhs.DataType,
                (lhs.value_ * rhs.value_ + Pow2(lhs.QBits - 1)) \div Pow2(lhs.QBits))

C6_RoundTrip ==
    /\ op = "truncatedTo"
    /\ prev.op = "increasedTo"
    /\ prev.rhs.QBits > prev.lhs.QBits
    /\ rhs.QBits = prev.lhs.QBits

\* C6 as claimed: for any value v at precision p and any q > p,
\* v.increasedTo<q>().truncatedTo<p>() has exactly the raw value of v.
C6_RoundTripEveryValue == C6_RoundTrip => ret = prev.lhs

\* C6 amended: for any value v at precision p and any q > p for which
\* raw(v) * 2^(q-p) is representable in the storage type,
\* v.increasedTo<q>().truncatedTo<p>() has exactly the raw value of v.
C6_RoundTripExact ==
    ( /\ C6_RoundTrip
      /\ Fits(prev.lhs.value_ * Pow2(prev.rhs.QBits - prev.lhs.QBits), prev.lhs.DataType) )
    => ret = prev.lhs

\* a negative odd value widened by two bits and truncated back
C6_Witness ==
    /\ C6_RoundTrip
    /\ prev.rhs.QBits - prev.lhs.QBits = 2
    /\ prev.lhs.value_ = -3
    /\ lhs.value_ = -12
    /\ ret = prev.lhs

\* the implicit conversions and mixed-precision operations of C7
C7_Implicit ==
    { "tFixedPoint(fp2)", "operator=(fp2)", "operator+=(fp2)", "operator-=(fp2)",
      "operator+(fp2)", "operator-(fp2)" } \cup { rel \o "(fp2)" : rel \in Relations }

C8_Quotient(r, raw, n) == Abs(r * n - raw) < Abs(n)

\* C8: v * n and v *= n have the raw value raw(v) * n, and v / n and v /= n
\* have the raw value raw(v) divided by n, all with the fractional bits of v.
C8_ByPlainInteger ==
    /\ ( /\ op \in { "operator*(int)", "operator*=(int)" }
         /\ Fits(lhs.value_ * rhs.value_, lhs.DataType) )
       => ret = FP(lhs.QBits, lhs.DataType, lhs.value_ * rhs.value_)
    /\ ( /\ op \in { "operator/(int)", "operator/=(int)" }
         /\ rhs.value_ # 0
         /\ lhs.value_ # 0 )
       => /\ ret.kind = "fp"
          /\ ret.QBits = lhs.QBits
          /\ C8_Quotient(ret.value_, lhs.value_, rhs.value_)

\* C9: for q <= p each cross-type comparison a rel b returns the comparison
\* of raw(a) with raw(b) << (p-q).
C9_CrossCompare ==
    \A rel \in Relations :
        ( /\ op = rel \o "(fp2)"
          /\ rhs.QBits <= lhs.QBits
          /\ Fits(rhs.value_, lhs.DataType)
          /\ Fits(rhs.value_ * Pow2(lhs.QBits - rhs.QBits), lhs.DataType)
          /\ Fits((Abs(lhs.value_) + 1) * Pow2(lhs.QBits), lhs.DataType) )
        => ret = Bool(Compare(rel, lhs.value_, rhs.value_ * Pow2(lhs.QBits - rhs.QBits)))

\* n * 2^Q and the sums with it fit the storage type with room to spare
C10_Room(n, q, v, T) == Fits(2 * (Abs(v) + (Abs(n) + 1) * Pow2(q)), T)

\* C10: the constructor from n, v = n, v += n, v -= n, v + n and v == n all
\* use the raw value n * 2^Q for the plain integer n, negative or not.
C10_PlainInteger ==
    LET n == rhs.value_
        q == lhs.QBits
        v == lhs.value_
        T == lhs.DataType
    IN  (rhs.kind = "int" /\ lhs.kind \in {"fp", "type"} /\ C10_Room(n, q, v, T)) =>
        /\ op = "tFixedPoint(tValue)" => ret = FP(q, T, n * Pow2(q))
        /\ op = "operator=(double)"   => ret = FP(q, T, n * Pow2(q))
        /\ op = "operator+=(double)"  => ret = FP(q, T, v + n * Pow2(q))
        /\ op = "operator-=(double)"  => ret = FP(q, T, v - n * Pow2(q))
        /\ op = "operator+(double)"   => ret = FP(q, T, v + n * Pow2(q))
        /\ op = "==(double)"          => ret = Bool(v = n * Pow2(q))

\* C11: widening is exact whenever the widened raw value is representable in
\* the storage type of the target: the converting constructor gives the raw
\* value raw(src) * 2^(p-q), which is src.increasedTo<p, TargetStorage>(), and
\* the cross-type +=, -=, + and - add or subtract that same widened value.
C11_WideningExact ==
    LET p == lhs.QBits
        T == lhs.DataType
        w == rhs.value_ * Pow2(p - rhs.QBits)
    IN  (rhs.kind = "fp" /\ rhs.QBits <= p /\ Fits(w, T)) =>
        /\ op = "tFixedPoint(fp2)" =>
              ret = FP(p, T, w) /\ increasedTo2(rhs, p, T) = {ret}
        /\ (op \in {"operator+=(fp2)", "operator+(fp2)"} /\ Fits(lhs.value_ + w, T)) =>
              ret = FP(p, T, lhs.value_ + w)
        /\ (op \in {"operator-=(fp2)", "operator-(fp2)"} /\ Fits(lhs.value_ - w, T)) =>
              ret = FP(p, T, lhs.value_ - w)

\* d * 2^Q and its neighbours fit the storage type T
C12_InRange(d, q, T) == Fits(CQuot(Abs(d) * Pow2(q), DblUnit) + 2, T)

\* the int expression of the macro, 2^Q * frac + 10^digits / 2, fits an int
C12_MacroRoom(d, q) ==
    Fits((Pow2(q) * (Abs(d) % DblUnit) * (10 ^ MaxFracDigits)) \div DblUnit
           + 10 ^ MaxFracDigits, "int")

\* C12: FIXEDPOINT_CONSTANT( T, dec,frac ) has the raw value that rounding the
\* double dec.frac to T gives (T::rounded, T( double )), as
\* FIXEDPOINT_CONSTANT( tFixedPoint<8>, -2,3 ) and tFixedPoint<8>( -2.3 ).
C12_ConstantEqualsRounded ==
    ( /\ op = "FIXEDPOINT_CONSTANT"
      /\ ret.kind = "fp"
      /\ C12_InRange(rhs.value_, lhs.QBits, lhs.DataType)
      /\ C12_MacroRoom(rhs.value_, lhs.QBits) )
    => Made(lhs.QBits, lhs.DataType, rounded_(lhs.QBits, lhs.DataType, rhs.value_)) = {ret}

\* C13: for every double d in the representable range, positive or negative,
\* the raw value of T::rounded( d ) is within 1/2 of d * 2^Q, and
\* T::rounded( d ).toDouble() is within half a unit of the last place of d.
C13_RoundedWithinHalf ==
    /\ (op = "rounded" /\ C12_InRange(rhs.value_, lhs.QBits, lhs.DataType)) =>
          2 * Abs(ToDouble(ret.value_) - rhs.value_ * Pow2(lhs.QBits)) <= DblUnit
    /\ ( /\ op = "toDouble"
         /\ prev.op = "rounded"
         /\ C12_InRange(prev.rhs.value_, lhs.QBits, lhs.DataType) ) =>
          2 * Abs(ret.value_ - prev.rhs.value_) * Pow2(lhs.QBits) <= DblUnit

\* a, b and a + b widened by k bits all fit the storage type T
C14_NoOverflow(a, b, k, T) ==
    /\ k >= 0
    /\ Fits(a * Pow2(k), T)
    /\ Fits(b * Pow2(k), T)
    /\ Fits((a + b) * Pow2(k), T)

\* C14: widening commutes with addition: for values that do not overflow,
\* (a + b).increasedTo<q>() has the raw value of
\* a.increasedTo<q>() + b.increasedTo<q>(), which is (raw(a) + raw(b)) * 2^(q-Q).
C14_WideningCommutes ==
    LET a == prev.lhs
        b == prev.rhs
        q == rhs.QBits
    IN  ( /\ op = "increasedTo"
          /\ prev.op = "operator+(fp)"
          /\ C14_NoOverflow(a.value_, b.value_, q - a.QBits, a.DataType) )
        => /\ UNION { add_same(x, y) : x \in increasedTo(a, q), y \in increasedTo(b, q) } = {ret}
           /\ ret = FP(q, a.DataType, (a.value_ + b.value_) * Pow2(q - a.QBits))

\* a sum of two non-zero values, one of them negative, widened by at least one bit
C14_Witness ==
    /\ op = "increasedTo"
    /\ prev.op = "operator+(fp)"
    /\ C14_NoOverflow(prev.lhs.value_, prev.rhs.value_, rhs.QBits - prev.lhs.QBits, prev.lhs.DataType)
    /\ rhs.QBits > prev.lhs.QBits
    /\ prev.lhs.value_ < 0
    /\ prev.rhs.value_ > 1
    /\ ret.value_ # 0

\* the real quotient x / y rounded to the nearest integer, ties going up
C15_Nearest(x, y) ==
    IF y > 0 THEN (2 * x + y) \div (2 * y) ELSE (-(2 * x) - y) \div (-(2 * y))

\* C15: for same-type operands a / b with raw(b) # 0 returns the real quotient
\* raw(a) / raw(b) rounded to the nearest integer, ties going up (for positive
\* raw values floor(raw(a) / raw(b) + 1/2)).
C15_RoundsQuotient ==
    ( /\ op = "operator/(fp)"
      /\ rhs.value_ # 0
      /\ Fits(2 * (Abs(lhs.value_) + Abs(rhs.value_)), lhs.DataType) )
    => ret = Plain(lhs.DataType, C15_Nearest(lhs.value_, rhs.value_))

\* the relation with its sides exchanged: n rel v is v C16_Mirror(rel) n
C16_Mirror(rel) ==
    CASE rel = "==" -> "=="
      [] rel = "!=" -> "!="
      [] rel = "<"  -> ">"
      [] rel = "<=" -> ">="
      [] rel = ">=" -> "<="
      [] rel = ">"  -> "<"

\* C16: a comparison with the plain integer n on the left mirrors the one with
\* n on the right: (n < v) = (v > n), (n <= v) = (v >= n), (n > v) = (v < n),
\* (n >= v) = (v <= n), (n == v) = (v == n), (n != v) = (v != n); n < v is
\* false when v equals n.
C16_LeftMirrorsRight ==
    \A rel \in Relations :
        ( /\ op = rel \o "(int,fp)"
          /\ C10_Room(lhs.value_, rhs.QBits, rhs.value_, rhs.DataType) )
        => /\ cmp_double(C16_Mirror(rel), rhs, ToDouble(lhs.value_)) = {ret}
           /\ (rel = "<" /\ rhs.value_ = lhs.value_ * Pow2(rhs.QBits)) => ret = Bool(FALSE)

\* the operators that divide
C17_Divisions ==
    { "operator/(fp)", "operator/=(fp)", "operator/(fp2)", "operator/=(fp2)",
      "operator/(int)", "operator/=(int)" }

\* C17: a / b, a /= b and v / n with a right operand that is not zero never
\* divide an integer by zero, whatever the left operand (raw(a) = 0 included).
C17_NoDivisionByZero ==
    (op \in C17_Divisions /\ rhs.value_ # 0) => fault # "division by zero"

\* C18: for every raw value v, negative ones included, intPart() * 2^Q +
\* fracPart() = v, and fracPart() has the sign of the value and the magnitude
\* absFracPart().
C18_Recompose ==
    LET v == lhs.value_
        T == lhs.DataType
    IN  (lhs.kind = "fp" /\ v > MinVal(T)) =>
        /\ op = "intPart" =>
              \A f \in fracPart(lhs) : ret.value_ * Pow2(lhs.QBits) + f.value_ = v
        /\ op = "fracPart" =>
              /\ \A i \in intPart(lhs) : i.value_ * Pow2(lhs.QBits) + ret.value_ = v
              /\ v >= 0 => ret.value_ >= 0
              /\ v <= 0 => ret.value_ <= 0
              /\ absFracPart(lhs) = { Plain(T, Abs(ret.value_)) }
        /\ op = "absFracPart" =>
              \A f \in fracPart(lhs) : ret.value_ = Abs(f.value_)

\* 10^d with cXBits - 1 guard bits fits an unsigned and twice that fits the
\* storage type T
C19_Room(d, T) ==
    /\ (2 ^ (cXBits - 1)) * (10 ^ d) < 2 ^ IntBits
    /\ Fits((2 ^ cXBits) * (10 ^ d), T)

\* C19: fracPlaces( d ) always returns, its loop running at most Q times,
\* and for Q >= 1 and d >= 1 it returns an integer in 0 .. 10^d - 1.
C19_FracPlaces ==
    (op = "fracPlaces" /\ lhs.value_ > MinVal(lhs.DataType)) =>
        /\ ret # Diverges
        /\ \A run \in fracPlaces_run(lhs, rhs.value_) : run.iterations <= lhs.QBits
        /\ (lhs.QBits >= 1 /\ rhs.value_ >= 1 /\ C19_Room(rhs.value_, lhs.DataType)) =>
              (ret.value_ >= 0 /\ ret.value_ <= 10 ^ rhs.value_ - 1)

====
